---- MODULE Spec2Model ----
(***************************************************************************)
(* Model of prometheus-reporter.py: main() queries the metrics API, joins  *)
(* the answers per instance, renders and writes one report per instance    *)
(* and prints the nodes that meet the free-resource thresholds.            *)
(*                                                                         *)
(* Representation.  A Python str is a sequence of one-character strings.   *)
(* A Python float is a fixed-point integer counting hundredths (73.5 is    *)
(* 7350); the sample values are chosen so that every quotient the program  *)
(* forms is exact in hundredths.  Byte quantities are counted in MiB, so   *)
(* that 1024**3 bytes is 1024 MiB.  A sample value string is the pair of   *)
(* its whole and fractional digits.                                        *)
(***************************************************************************)
EXTENDS Integers, Sequences, FiniteSets, TLC

(***************************************************************************)
(* Bounds.                                                                 *)
(***************************************************************************)
NInst == 2
NMounts == 2

(***************************************************************************)
(* Python values.                                                          *)
(***************************************************************************)
None == <<"<None>">>

Truthy(s) == s # None /\ s # <<>>

PyTuple(items) == [type |-> "tuple", val |-> items]

PyInt(n) == [type |-> "int", val |-> n]

Subscriptable(x) == x.type = "tuple"

EmptyDict == [k \in {} |-> 0]

DictGet(d, k, default) == IF k \in DOMAIN d THEN d[k] ELSE default

DictSet(d, k, v) == [x \in DOMAIN d \cup {k} |-> IF x = k THEN v ELSE d[x]]

(* insertion-ordered dicts whose iteration order the program observes *)
ODKeys(od) == {od[n][1] : n \in 1..Len(od)}

ODGet(od, k, default) ==
  IF k \in ODKeys(od)
  THEN LET n == CHOOSE m \in 1..Len(od) : od[m][1] = k IN od[n][2]
  ELSE default

ODSet(od, k, v) ==
  IF k \in ODKeys(od)
  THEN [n \in 1..Len(od) |-> IF od[n][1] = k THEN <<k, v>> ELSE od[n]]
  ELSE Append(od, <<k, v>>)

Abs(x) == IF x < 0 THEN -x ELSE x

PyFloat(s) == s.whole * 100 + s.frac

Fmt2(x) ==
  [sign |-> IF x < 0 THEN "-" ELSE "", whole |-> Abs(x) \div 100, frac |-> Abs(x) % 100]

PyIntTrunc(x) == IF x < 0 THEN -(Abs(x) \div 100) ELSE x \div 100

CharCode(c) ==
  CASE c = " " -> 32
    [] c = "." -> 46
    [] c = "/" -> 47
    [] c = "0" -> 48
    [] c = "1" -> 49
    [] c = "2" -> 50
    [] c = "3" -> 51
    [] c = "9" -> 57
    [] c = ":" -> 58
    [] c = "_" -> 95
    [] c = "b" -> 98
    [] c = "d" -> 100
    [] c = "e" -> 101
    [] c = "n" -> 110
    [] c = "o" -> 111
    [] c = "t" -> 116
    [] c = "x" -> 120
    [] OTHER -> 127

RECURSIVE StrLess(_, _)
StrLess(a, b) ==
  IF b = <<>> THEN FALSE
  ELSE IF a = <<>> THEN TRUE
  ELSE IF CharCode(Head(a)) # CharCode(Head(b))
       THEN CharCode(Head(a)) < CharCode(Head(b))
       ELSE StrLess(Tail(a), Tail(b))

(* descending instead of ascending order *)
RECURSIVE SortedDescending(_)
SortedDescending(S) ==
  IF S = {} THEN <<>>
  ELSE LET m == CHOOSE x \in S : \A y \in S \ {x} : StrLess(y, x)
       IN <<m>> \o SortedDescending(S \ {m})

RECURSIVE Sorted(_)
Sorted(S) ==
  IF S = {} THEN <<>>
  ELSE LET m == CHOOSE x \in S : \A y \in S \ {x} : StrLess(x, y)
       IN <<m>> \o Sorted(S \ {m})

RECURSIVE Replace(_, _, _)
Replace(s, old, new) ==
  IF s = <<>> THEN <<>>
  ELSE <<IF Head(s) = old THEN new ELSE Head(s)>> \o Replace(Tail(s), old, new)

RECURSIVE SplitHead(_, _)
SplitHead(s, sep) ==
  IF s = <<>> \/ Head(s) = sep THEN <<>>
  ELSE <<Head(s)>> \o SplitHead(Tail(s), sep)

(***************************************************************************)
(* Pure functions of the program.                                          *)
(***************************************************************************)
MiBPerGB == 1024

bytes_to_gb(b) == IF b < 0 THEN -(Abs(b) \div MiBPerGB) ELSE b \div MiBPerGB

extract_ip(instance) == SplitHead(instance, ":")

safe_name(node_name) == Replace(Replace(node_name, " ", "_"), "/", "_")

report_path(node_name) ==
  <<"n", "o", "d", "e", "_">> \o safe_name(node_name) \o <<".", "t", "x", "t">>

(***************************************************************************)
(* The metrics API.  The answers the server gives are fixed for the whole  *)
(* behaviour (identical upstream data), one answer per query expression.   *)
(* A host profile says which series the server holds for an instance.      *)
(***************************************************************************)
cpu_idle_query == "avg by(instance)(rate(node_cpu_seconds_total{mode=\"idle\"}[5m])) * 100"

cpu_cores_query == "count(node_cpu_seconds_total{mode=\"user\"}) by (instance)"

mem_total_query == "node_memory_MemTotal_bytes"

mem_avail_query == "node_memory_MemAvailable_bytes"

total_query == "node_filesystem_size_bytes"

free_query == "node_filesystem_free_bytes"

Queries ==
  {cpu_idle_query, cpu_cores_query, mem_total_query, mem_avail_query, total_query, free_query}

InstanceNames ==
  << <<"2", ":", "9">>, <<"1", ":", "9">>, <<"1", "0", ":", "9">>, <<"3", ":", "9">> >>

Instances == {InstanceNames[n] : n \in 1..NInst}

MountNames == << <<"/">>, <<"/", "d">>, <<"/", "b">>, <<"/", "e">> >>

V(w, f) == [whole |-> w, frac |-> f]

No == [has |-> FALSE, v |-> V(0, 0)]

Some(x) == [has |-> TRUE, v |-> x]

NoJob == [has |-> FALSE, v |-> <<>>]

Job1 == <<"n", " ", "1">>

Job2 == <<"n", "/", "1">>

Job3 == <<"n", "_", "1">>

DiskOpts ==
  { [total |-> No, free |-> No],
    [total |-> Some(V(4096, 0)), free |-> No],
    [total |-> Some(V(4096, 0)), free |-> Some(V(1024, 0))],
    [total |-> Some(V(4096, 0)), free |-> Some(V(2048, 0))],
    [total |-> No, free |-> Some(V(2048, 0))],
    [total |-> Some(V(0, 0)), free |-> Some(V(0, 0))] }

OneDisk(t, f) == <<[total |-> t, free |-> f]>>

BaseDisks == OneDisk(Some(V(4096, 0)), Some(V(2048, 0)))

Base ==
  [idle |-> Some(V(50, 0)), cores |-> Some(V(2, 0)), mt |-> Some(V(4096, 0)),
   ma |-> Some(V(2048, 0)), job |-> NoJob, disks |-> BaseDisks]

DiskSlice == {[Base EXCEPT !.disks = d] : d \in [1..NMounts -> DiskOpts]}

FilterSlice ==
  {[Base EXCEPT !.idle = Some(c), !.mt = Some(m[1]), !.ma = Some(m[2]), !.disks = d] :
     c \in {V(0, 0), V(30, 0), V(40, 0), V(73, 50)},
     m \in {<<V(4096, 0), V(2048, 0)>>, <<V(4096, 0), V(1024, 0)>>, <<V(0, 0), V(1024, 0)>>},
     d \in { <<>>,
             OneDisk(Some(V(4096, 0)), Some(V(1024, 0))),
             OneDisk(Some(V(4096, 0)), Some(V(1024, 0))) \o BaseDisks }}

Opt(b, x) == IF b THEN Some(x) ELSE No

PresenceSlice ==
  {[idle |-> Opt(p[1], V(50, 0)), cores |-> Opt(p[2], V(2, 0)), mt |-> Opt(p[3], V(4096, 0)),
    ma |-> Opt(p[4], V(2048, 0)), job |-> NoJob,
    disks |-> OneDisk(Opt(p[5], V(4096, 0)), Opt(p[6], V(2048, 0)))] :
     p \in [1..6 -> BOOLEAN]}

NameSlice == {[Base EXCEPT !.job = [has |-> TRUE, v |-> j]] : j \in {Job1, Job2, Job3}}

Rich == DiskSlice \cup FilterSlice \cup PresenceSlice \cup NameSlice

Small ==
  { [Base EXCEPT !.job = [has |-> TRUE, v |-> Job1], !.idle = Some(V(0, 0))],
    [Base EXCEPT !.idle = No, !.mt = No, !.ma = No, !.disks = <<>>] }

(* one host with any profile of Rich, at most one other host off the base profile *)
HostAssignments ==
  {[i \in Instances |-> IF i = focus THEN r ELSE IF i = other THEN s ELSE Base] :
     focus \in Instances, r \in Rich, other \in Instances, s \in Small \cup {Base}}

Labels(i, p) ==
  IF p.job.has THEN [instance |-> i, job |-> p.job.v] ELSE [instance |-> i]

Item(labels, valstr) == [metric |-> labels, value |-> <<0, valstr>>]

(* items the fetchers must drop: no instance label, or no mountpoint label *)
NoiseItems(q) ==
  IF q \in {total_query, free_query}
  THEN << Item([mountpoint |-> MountNames[1]], V(1, 0)),
          Item([instance |-> InstanceNames[1]], V(1, 0)) >>
  ELSE << Item([job |-> Job1], V(1, 0)) >>

Field(p, q) ==
  CASE q = cpu_idle_query -> p.idle
    [] q = cpu_cores_query -> p.cores
    [] q = mem_total_query -> p.mt
    [] q = mem_avail_query -> p.ma

RECURSIVE DiskItems(_, _, _, _)
DiskItems(i, p, q, n) ==
  IF n > Len(p.disks) THEN <<>>
  ELSE LET o == IF q = total_query THEN p.disks[n].total ELSE p.disks[n].free
           l == [x \in DOMAIN Labels(i, p) \cup {"mountpoint"} |->
                   IF x = "mountpoint" THEN MountNames[n] ELSE Labels(i, p)[x]]
       IN (IF o.has THEN <<Item(l, o.v)>> ELSE <<>>) \o DiskItems(i, p, q, n + 1)

HostItems(i, p, q) ==
  IF q \in {total_query, free_query} THEN DiskItems(i, p, q, 1)
  ELSE IF Field(p, q).has THEN <<Item(Labels(i, p), Field(p, q).v)>> ELSE <<>>

RECURSIVE Answer(_, _, _)
Answer(hosts, q, n) ==
  IF n > NInst THEN <<>>
  ELSE HostItems(InstanceNames[n], hosts[InstanceNames[n]], q) \o Answer(hosts, q, n + 1)

Upstream(hosts) == [q \in Queries |-> NoiseItems(q) \o Answer(hosts, q, 1)]

Upstreams == {Upstream(h) : h \in HostAssignments}

(***************************************************************************)
(* Fetchers (parsing of an answer).                                        *)
(***************************************************************************)
LabelGet(labels, k, default) == IF k \in DOMAIN labels THEN labels[k] ELSE default

RECURSIVE ParseMetric(_, _)
ParseMetric(results, data) ==
  IF results = <<>> THEN data
  ELSE LET item == Head(results)
           labels == item.metric
           instance == LabelGet(labels, "instance", None)
       IN ParseMetric(Tail(results),
            IF Truthy(instance)
            THEN DictSet(data, instance, PyTuple(<<PyFloat(item.value[2]), labels>>))
            ELSE data)

get_metric_data(results) == ParseMetric(results, EmptyDict)

RECURSIVE ParseJobs(_, _)
ParseJobs(results, mapping) ==
  IF results = <<>> THEN mapping
  ELSE LET labels == Head(results).metric
           instance == LabelGet(labels, "instance", None)
           job == LabelGet(labels, "job", instance)
       IN ParseJobs(Tail(results),
            IF Truthy(instance) THEN DictSet(mapping, instance, job) ELSE mapping)

get_instance_to_job_map(results) == ParseJobs(results, EmptyDict)

RECURSIVE ParseDisk(_, _)
ParseDisk(results, disk) ==
  IF results = <<>> THEN disk
  ELSE LET item == Head(results)
           labels == item.metric
           instance == LabelGet(labels, "instance", None)
           mount == LabelGet(labels, "mountpoint", None)
       IN ParseDisk(Tail(results),
            IF Truthy(instance) /\ Truthy(mount)
            THEN DictSet(disk, instance,
                   ODSet(DictGet(disk, instance, <<>>), mount, PyFloat(item.value[2])))
            ELSE disk)

get_disk_data(results) == ParseDisk(results, EmptyDict)

(***************************************************************************)
(* Aggregation of one instance (body of the loop of main).                 *)
(***************************************************************************)
DefaultCores == PyTuple(<<0>>)

DefaultIdle == PyInt(0)

DefaultMem == PyTuple(<<0>>)

(* the subtraction without the guard on a zero idle_cpu *)
UsedCpuUnguarded(idle_cpu) == 100 * 100 - idle_cpu

UsedCpu(idle_cpu) == IF idle_cpu # 0 THEN 100 * 100 - idle_cpu ELSE 0

MemUsed(mem_t, mem_a) == IF mem_t # 0 /\ mem_a # 0 THEN mem_t - mem_a ELSE 0

(* used taken to be the total, the free bytes never subtracted *)
DiskRowUsedIsTotal(mountpoint, total_bytes, free_bytes) ==
  [mountpoint |-> mountpoint,
   total_gb |-> bytes_to_gb(total_bytes),
   used_gb |-> bytes_to_gb(total_bytes),
   free_gb |-> bytes_to_gb(free_bytes)]

DiskRow(mountpoint, total_bytes, free_bytes) ==
  [mountpoint |-> mountpoint,
   total_gb |-> bytes_to_gb(total_bytes),
   used_gb |-> bytes_to_gb(total_bytes - free_bytes),
   free_gb |-> bytes_to_gb(free_bytes)]

FreeBytes(dfree, instance, mountpoint) ==
  ODGet(DictGet(dfree, instance, <<>>), mountpoint, 0)

DisksList(dtotal, dfree, instance) ==
  IF instance \in DOMAIN dtotal
  THEN [n \in 1..Len(dtotal[instance]) |->
          DiskRow(dtotal[instance][n][1], dtotal[instance][n][2],
                  FreeBytes(dfree, instance, dtotal[instance][n][1]))]
  ELSE <<>>

RECURSIVE DiskLines(_)
DiskLines(disks) ==
  IF disks = <<>> THEN <<>>
  ELSE << <<"  Mountpoint: ", Head(disks).mountpoint>>,
          <<"    Total: ", Fmt2(Head(disks).total_gb), " GB">>,
          <<"    Used: ", Fmt2(Head(disks).used_gb), " GB">>,
          <<"    Free: ", Fmt2(Head(disks).free_gb), " GB">> >> \o DiskLines(Tail(disks))

NoDiskLine == <<"  No disk data available">>

Separator == <<"-", 40>>

ReportText(node_name, ip, cores, used_cpu, idle_cpu, mem_t, mem_used, mem_a, disks) ==
  << <<"Node: ", node_name, " (IP: ", ip, ")">>,
     <<" CPU cores: ", PyIntTrunc(cores)>>,
     <<" CPU used: ", Fmt2(used_cpu), "%">>,
     <<" CPU free: ", Fmt2(idle_cpu), "%">>,
     <<" Memory total: ", Fmt2(bytes_to_gb(mem_t)), " GB">>,
     <<" Memory used: ", Fmt2(bytes_to_gb(mem_used)), " GB">>,
     <<" Memory free: ", Fmt2(bytes_to_gb(mem_a)), " GB">>,
     <<" Disks:">> >>
  \o (IF disks # <<>> THEN DiskLines(disks) ELSE <<NoDiskLine>>)
  \o <<Separator>>

NodeRecord(idle_cpu, mem_t, mem_a, disks) ==
  [cpu_free_percent |-> idle_cpu,
   mem_total |-> bytes_to_gb(mem_t),
   mem_free |-> bytes_to_gb(mem_a),
   disks |-> disks]

(* the file opened in append mode instead of being truncated *)
OpenAppend(files, path, text) == DictSet(files, path, DictGet(files, path, <<>>) \o text)

(* every other report file lost when one is written *)
OpenWriteClobber(files, path, text) == [f \in {path} |-> text]

OpenWrite(files, path, text) == DictSet(files, path, text)

(***************************************************************************)
(* Threshold filter.                                                       *)
(***************************************************************************)
cpu_free_threshold == 40

mem_free_threshold == 40

disk_free_threshold == 40

Percent(part, whole) == IF whole # 0 THEN (part * 100 * 100) \div whole ELSE 0

Meets(pct, threshold) == pct >= threshold * 100

(* conjunction over the mountpoints instead of the break at the first that qualifies *)
RECURSIVE DisksOkAll(_)
DisksOkAll(disks) ==
  IF disks = <<>> THEN FALSE
  ELSE /\ Meets(Percent(Head(disks).free_gb, Head(disks).total_gb), disk_free_threshold)
       /\ (Tail(disks) = <<>> \/ DisksOkAll(Tail(disks)))

RECURSIVE DisksOk(_)
DisksOk(disks) ==
  IF disks = <<>> THEN FALSE
  ELSE IF Meets(Percent(Head(disks).free_gb, Head(disks).total_gb), disk_free_threshold)
       THEN TRUE
       ELSE DisksOk(Tail(disks))

RECURSIVE DiskPrints(_)
DiskPrints(disks) ==
  IF disks = <<>> THEN <<>>
  ELSE LET d == Head(disks)
           free_pct == Percent(d.free_gb, d.total_gb)
       IN (IF Meets(free_pct, disk_free_threshold)
           THEN << <<"    Mountpoint: ", d.mountpoint, ", Free: ", Fmt2(d.free_gb),
                     " GB (", Fmt2(free_pct), "%)">> >>
           ELSE <<>>) \o DiskPrints(Tail(disks))

Qualifies(data) ==
  /\ Meets(data.cpu_free_percent, cpu_free_threshold)
  /\ Meets(Percent(data.mem_free, data.mem_total), mem_free_threshold)
  /\ DisksOk(data.disks)

NodePrint(node, data) ==
  << <<"Node: ", node>>,
     <<"  CPU free: ", Fmt2(data.cpu_free_percent), "%">>,
     <<"  Memory free: ", Fmt2(data.mem_free), " GB (",
       Fmt2(Percent(data.mem_free, data.mem_total)), "%)">>,
     <<"  Disk(s) with sufficient free space:">> >>
  \o DiskPrints(data.disks)
  \o <<Separator>>

SummaryHeader ==
  <<"Nodes with more than ", cpu_free_threshold, mem_free_threshold, disk_free_threshold>>

RECURSIVE NodePrints(_)
NodePrints(nd) ==
  IF nd = <<>> THEN <<>>
  ELSE (IF Qualifies(Head(nd)[2]) THEN <<NodePrint(Head(nd)[1], Head(nd)[2])>> ELSE <<>>)
       \o NodePrints(Tail(nd))

(* what the filter prints: the header, then one block of lines per printed node *)
report_nodes_with_free_resources(nd) == << <<SummaryHeader>> >> \o NodePrints(nd)

(***************************************************************************)
(* State.  pc is the position of main; written is the history of the loop  *)
(* iterations that reached the end of the body in the current run; stdout  *)
(* is what the current run has printed, one block of lines per print       *)
(* group; fs is ./reports, fs0 its content when the current run started,   *)
(* prev the report files of the last run that completed.                   *)
(***************************************************************************)
VARIABLES prom, pc, error, issued, cpu_idle, cpu_cores, mem_total, mem_avail,
          total_results, disk_total, disk_free, instance_to_job, all_instances,
          todo, nodes_data, written, stdout, fs, fs0, prev

locals == <<cpu_idle, cpu_cores, mem_total, mem_avail, total_results, disk_total,
            disk_free, instance_to_job, all_instances, todo, nodes_data>>

vars == <<prom, pc, error, issued, locals, written, stdout, fs, fs0, prev>>

NoPrev == [some |-> FALSE, files |-> EmptyDict]

Fresh ==
  /\ pc = "cpu_idle"
  /\ error = "none"
  /\ issued = <<>>
  /\ cpu_idle = EmptyDict
  /\ cpu_cores = EmptyDict
  /\ mem_total = EmptyDict
  /\ mem_avail = EmptyDict
  /\ total_results = <<>>
  /\ disk_total = EmptyDict
  /\ disk_free = EmptyDict
  /\ instance_to_job = EmptyDict
  /\ all_instances = {}
  /\ todo = <<>>
  /\ nodes_data = <<>>
  /\ written = <<>>
  /\ stdout = <<>>

(* ./reports before the first run: empty, or holding an old report *)
StaleReports == [f \in {report_path(InstanceNames[NInst])} |-> << <<"Node: ", <<"o">>, " (IP: ", <<"o">>, ")">> >>]

InitialReports == {EmptyDict, StaleReports}

Init ==
  /\ prom \in Upstreams
  /\ Fresh
  /\ fs \in InitialReports
  /\ fs0 = fs
  /\ prev = NoPrev

QueryOf(p) ==
  CASE p = "cpu_idle" -> cpu_idle_query
    [] p = "cpu_cores" -> cpu_cores_query
    [] p = "mem_total" -> mem_total_query
    [] p = "mem_avail" -> mem_avail_query
    [] p = "disk_total" -> total_query
    [] p = "disk_free" -> free_query
    [] p = "job_map" -> mem_total_query

QueryPcs ==
  {"cpu_idle", "cpu_cores", "mem_total", "mem_avail", "disk_total", "disk_free", "job_map"}

(* query_prometheus answers: the request is sent and the result list returned *)
query_prometheus(q) == prom[q]

Env == <<prom, fs, fs0, prev>>

FetchCpuIdle ==
  /\ pc = "cpu_idle"
  /\ issued' = Append(issued, cpu_idle_query)
  /\ cpu_idle' = get_metric_data(query_prometheus(cpu_idle_query))
  /\ pc' = "cpu_cores"
  /\ UNCHANGED <<Env, error, cpu_cores, mem_total, mem_avail, total_results, disk_total,
                 disk_free, instance_to_job, all_instances, todo, nodes_data, written, stdout>>

FetchCpuCores ==
  /\ pc = "cpu_cores"
  /\ issued' = Append(issued, cpu_cores_query)
  /\ cpu_cores' = get_metric_data(query_prometheus(cpu_cores_query))
  /\ pc' = "mem_total"
  /\ UNCHANGED <<Env, error, cpu_idle, mem_total, mem_avail, total_results, disk_total,
                 disk_free, instance_to_job, all_instances, todo, nodes_data, written, stdout>>

FetchMemTotal ==
  /\ pc = "mem_total"
  /\ issued' = Append(issued, mem_total_query)
  /\ mem_total' = get_metric_data(query_prometheus(mem_total_query))
  /\ pc' = "mem_avail"
  /\ UNCHANGED <<Env, error, cpu_idle, cpu_cores, mem_avail, total_results, disk_total,
                 disk_free, instance_to_job, all_instances, todo, nodes_data, written, stdout>>

FetchMemAvail ==
  /\ pc = "mem_avail"
  /\ issued' = Append(issued, mem_avail_query)
  /\ mem_avail' = get_metric_data(query_prometheus(mem_avail_query))
  /\ pc' = "disk_total"
  /\ UNCHANGED <<Env, error, cpu_idle, cpu_cores, mem_total, total_results, disk_total,
                 disk_free, instance_to_job, all_instances, todo, nodes_data, written, stdout>>

(* get_disk_data, first request *)
FetchDiskTotal ==
  /\ pc = "disk_total"
  /\ issued' = Append(issued, total_query)
  /\ total_results' = query_prometheus(total_query)
  /\ pc' = "disk_free"
  /\ UNCHANGED <<Env, error, cpu_idle, cpu_cores, mem_total, mem_avail, disk_total,
                 disk_free, instance_to_job, all_instances, todo, nodes_data, written, stdout>>

(* get_disk_data, second request and the grouping of both answers *)
FetchDiskFree ==
  /\ pc = "disk_free"
  /\ issued' = Append(issued, free_query)
  /\ disk_total' = get_disk_data(total_results)
  /\ disk_free' = get_disk_data(query_prometheus(free_query))
  /\ pc' = "job_map"
  /\ UNCHANGED <<Env, error, cpu_idle, cpu_cores, mem_total, mem_avail, total_results,
                 instance_to_job, all_instances, todo, nodes_data, written, stdout>>

UnionOfInstances ==
  DOMAIN cpu_idle \cup DOMAIN cpu_cores \cup DOMAIN mem_total \cup DOMAIN mem_avail
    \cup DOMAIN disk_total \cup DOMAIN disk_free

(* get_instance_to_job_map, then the union and the start of the loop *)
FetchJobMap ==
  /\ pc = "job_map"
  /\ issued' = Append(issued, mem_total_query)
  /\ instance_to_job' = get_instance_to_job_map(query_prometheus(mem_total_query))
  /\ all_instances' = UnionOfInstances
  /\ todo' = Sorted(UnionOfInstances)
  /\ nodes_data' = <<>>
  /\ pc' = "loop"
  /\ UNCHANGED <<Env, error, cpu_idle, cpu_cores, mem_total, mem_avail, total_results,
                 disk_total, disk_free, written, stdout>>

(* raise_for_status, or the transport, raises in query_prometheus *)
QueryFails ==
  /\ pc \in QueryPcs
  /\ issued' = Append(issued, QueryOf(pc))
  /\ pc' = "aborted"
  /\ error' = "HTTPError"
  /\ UNCHANGED <<Env, locals, written, stdout>>

(***************************************************************************)
(* One iteration of the loop of main over sorted(all_instances).           *)
(***************************************************************************)
IdleEntry(instance) == DictGet(cpu_idle, instance, DefaultIdle)

(* the values the body computes for an instance whose idle entry can be indexed *)
Iteration(instance) ==
  LET node_name == DictGet(instance_to_job, instance, instance)
      ip == extract_ip(instance)
      cores == DictGet(cpu_cores, instance, DefaultCores).val[1]
      idle_cpu == IdleEntry(instance).val[1]
      used_cpu == UsedCpu(idle_cpu)
      mem_t == DictGet(mem_total, instance, DefaultMem).val[1]
      mem_a == DictGet(mem_avail, instance, DefaultMem).val[1]
      mem_used == MemUsed(mem_t, mem_a)
      disks_list == DisksList(disk_total, disk_free, instance)
  IN [instance |-> instance,
      node_name |-> node_name,
      idle_cpu |-> idle_cpu,
      used_cpu |-> used_cpu,
      disks_list |-> disks_list,
      path |-> report_path(node_name),
      report_text |-> ReportText(node_name, ip, cores, used_cpu, idle_cpu,
                                 mem_t, mem_used, mem_a, disks_list),
      record |-> NodeRecord(idle_cpu, mem_t, mem_a, disks_list)]

WrittenLine(it) ==
  <<"Written report for ", it.node_name, " to ", report_path(it.node_name)>>

(* the body runs to its end: report written, confirmation printed, record stored *)
LoopBody ==
  /\ pc = "loop"
  /\ todo # <<>>
  /\ Subscriptable(IdleEntry(Head(todo)))
  /\ LET it == Iteration(Head(todo))
     IN /\ fs' = OpenWrite(fs, it.path, it.report_text)
        /\ stdout' = Append(stdout, <<WrittenLine(it)>>)
        /\ nodes_data' = ODSet(nodes_data, it.node_name, it.record)
        /\ written' = Append(written, it)
  /\ todo' = Tail(todo)
  /\ UNCHANGED <<prom, fs0, prev, pc, error, issued, cpu_idle, cpu_cores, mem_total,
                 mem_avail, total_results, disk_total, disk_free, instance_to_job,
                 all_instances>>

(* cpu_idle.get(instance, (0))[0] with the instance missing: 0 is not indexable *)
LoopTypeError ==
  /\ pc = "loop"
  /\ todo # <<>>
  /\ ~Subscriptable(IdleEntry(Head(todo)))
  /\ pc' = "aborted"
  /\ error' = "TypeError"
  /\ UNCHANGED <<Env, issued, locals, written, stdout>>

(* open() raises in write_node_report_to_file: nothing is created or truncated *)
LoopWriteFails ==
  /\ pc = "loop"
  /\ todo # <<>>
  /\ Subscriptable(IdleEntry(Head(todo)))
  /\ pc' = "aborted"
  /\ error' = "OSError"
  /\ UNCHANGED <<Env, issued, locals, written, stdout>>

(* f.write() or the close of the file raises after open() truncated the file *)
LoopWriteFailsAfterOpen ==
  /\ pc = "loop"
  /\ todo # <<>>
  /\ Subscriptable(IdleEntry(Head(todo)))
  /\ fs' = OpenWrite(fs, Iteration(Head(todo)).path, <<>>)
  /\ pc' = "aborted"
  /\ error' = "OSError"
  /\ UNCHANGED <<prom, fs0, prev, issued, locals, written, stdout>>

(* the loop is over: the threshold filter prints its summary and main returns *)
Filter ==
  /\ pc = "loop"
  /\ todo = <<>>
  /\ stdout' = stdout \o report_nodes_with_free_resources(nodes_data)
  /\ pc' = "done"
  /\ UNCHANGED <<Env, error, issued, locals, written>>

WrittenPaths == {written[n].path : n \in 1..Len(written)}

WrittenFiles == [f \in WrittenPaths |-> fs[f]]

(* the script is run again against the same upstream data *)
Rerun ==
  /\ pc \in {"done", "aborted"}
  /\ pc' = "cpu_idle"
  /\ error' = "none"
  /\ issued' = <<>>
  /\ cpu_idle' = EmptyDict
  /\ cpu_cores' = EmptyDict
  /\ mem_total' = EmptyDict
  /\ mem_avail' = EmptyDict
  /\ total_results' = <<>>
  /\ disk_total' = EmptyDict
  /\ disk_free' = EmptyDict
  /\ instance_to_job' = EmptyDict
  /\ all_instances' = {}
  /\ todo' = <<>>
  /\ nodes_data' = <<>>
  /\ written' = <<>>
  /\ stdout' = <<>>
  /\ fs0' = fs
  /\ prev' = IF pc = "done" THEN [some |-> TRUE, files |-> WrittenFiles] ELSE prev
  /\ UNCHANGED <<prom, fs>>

Next ==
  \/ FetchCpuIdle
  \/ FetchCpuCores
  \/ FetchMemTotal
  \/ FetchMemAvail
  \/ FetchDiskTotal
  \/ FetchDiskFree
  \/ FetchJobMap
  \/ QueryFails
  \/ LoopBody
  \/ LoopTypeError
  \/ LoopWriteFails
  \/ LoopWriteFailsAfterOpen
  \/ Filter
  \/ Rerun

Spec == Init /\ [][Next]_vars

(***************************************************************************)
(* What the server holds, read off the raw answers (not the parsed dicts). *)
(***************************************************************************)
HasLabel(item, k) == k \in DOMAIN item.metric /\ Truthy(item.metric[k])

RawIdx(q, i) ==
  {n \in 1..Len(prom[q]) : HasLabel(prom[q][n], "instance") /\ prom[q][n].metric.instance = i}

RawInstances(q) ==
  {prom[q][n].metric.instance : n \in {k \in 1..Len(prom[q]) : HasLabel(prom[q][k], "instance")}}

RawValue(q, i) ==
  LET n == CHOOSE k \in RawIdx(q, i) : \A j \in RawIdx(q, i) : j <= k
  IN PyFloat(prom[q][n].value[2])

RawDiskIdx(q, i, m) ==
  {n \in RawIdx(q, i) : HasLabel(prom[q][n], "mountpoint") /\ prom[q][n].metric.mountpoint = m}

RawMounts(q, i) ==
  {prom[q][n].metric.mountpoint : n \in {k \in RawIdx(q, i) : HasLabel(prom[q][k], "mountpoint")}}

RawDiskInstances(q) == {i \in RawInstances(q) : RawMounts(q, i) # {}}

RawDiskValue(q, i, m) ==
  IF RawDiskIdx(q, i, m) = {} THEN 0
  ELSE LET n == CHOOSE k \in RawDiskIdx(q, i, m) : \A j \in RawDiskIdx(q, i, m) : j <= k
       IN PyFloat(prom[q][n].value[2])

RawUnion ==
  RawInstances(cpu_idle_query) \cup RawInstances(cpu_cores_query)
    \cup RawInstances(mem_total_query) \cup RawInstances(mem_avail_query)
    \cup RawDiskInstances(total_query) \cup RawDiskInstances(free_query)

HasNoDiskLine(text) ==
  \E n \in 1..Len(text) : Len(text[n]) = 1 /\ text[n][1] = "  No disk data available"

HasMountBlock(text) ==
  \E n \in 1..Len(text) : Len(text[n]) = 2 /\ text[n][1] = "  Mountpoint: "

ReportOf(i) == {n \in 1..Len(written) : written[n].instance = i}

IsWrittenBlock(b) == b[1][1] = "Written report for "

IsHeaderBlock(b) == b[1][1] = "Nodes with more than "

IsNodeBlock(b) == b[1][1] = "Node: "

Completed == pc = "done"

(***************************************************************************)
(* C1: in a run that completes, the records handed to the threshold filter *)
(* are exactly one per instance of the union, none shared by two instances.*)
(***************************************************************************)
C1_OneRecordPerInstance ==
  Completed =>
    /\ all_instances = RawUnion
    /\ Len(nodes_data) = Cardinality(all_instances)
    /\ \A m, n \in 1..Len(written) : m # n => written[m].node_name # written[n].node_name

(***************************************************************************)
(* C2: an instance of the union that lacks a CPU or memory sample is not   *)
(* an error: main does not raise on it and its report is still written.    *)
(***************************************************************************)
C2_MissingMetricIsNotAnError ==
  /\ ~(pc = "aborted" /\ error = "TypeError")
  /\ Completed => \A i \in RawUnion : ReportOf(i) # {}

(***************************************************************************)
(* C3: at the end of a run that completes, the file of every instance      *)
(* holds the text rendered for that instance (nothing was overwritten by   *)
(* the report of another instance).                                        *)
(***************************************************************************)
C3_EachReportInItsOwnFile ==
  Completed => \A n \in 1..Len(written) : fs[written[n].path] = written[n].report_text

(***************************************************************************)
(* C7: every instance of the union that is absent from disk_total yields a *)
(* report with an empty disk list, the line "No disk data available" and   *)
(* no Mountpoint block; a report has that line only if its instance has no *)
(* mountpoint in disk_total.                                               *)
(***************************************************************************)
C7_NoDiskDataReported ==
  /\ (pc \in {"done", "aborted"} /\ error \notin {"HTTPError", "OSError"}) =>
       \A i \in RawUnion \ RawDiskInstances(total_query) :
         \E n \in ReportOf(i) :
           /\ written[n].disks_list = <<>>
           /\ HasNoDiskLine(written[n].report_text)
           /\ ~HasMountBlock(written[n].report_text)
  /\ \A n \in 1..Len(written) :
       HasNoDiskLine(written[n].report_text) =>
         RawMounts(total_query, written[n].instance) = {}

(***************************************************************************)
(* C5: the filter prints a node iff its CPU free meets the CPU threshold,  *)
(* its memory-free percent (0 when mem_total is 0) meets the memory        *)
(* threshold and at least one of its disks has a free percent (0 when its  *)
(* total is 0) meeting the disk threshold; the disks listed for a printed  *)
(* node are exactly those that individually meet the disk threshold.       *)
(***************************************************************************)
CpuMeets(data) == data.cpu_free_percent >= cpu_free_threshold * 100

MemMeets(data) ==
  data.mem_total # 0 /\ data.mem_free * 100 >= mem_free_threshold * data.mem_total

DiskMeets(d) == d.total_gb # 0 /\ d.free_gb * 100 >= disk_free_threshold * d.total_gb

NodeBlocks(node) ==
  {k \in 1..Len(stdout) : IsNodeBlock(stdout[k]) /\ stdout[k][1][2] = node}

(* the mountpoints listed in a printed block, in the order printed *)
ListedMounts(block) == [n \in 1..(Len(block) - 5) |-> block[n + 4][2]]

RECURSIVE MeetingMounts(_)
MeetingMounts(disks) ==
  IF disks = <<>> THEN <<>>
  ELSE (IF DiskMeets(Head(disks)) THEN <<Head(disks).mountpoint>> ELSE <<>>)
       \o MeetingMounts(Tail(disks))

EntryMounts(disks) == {disks[n].mountpoint : n \in 1..Len(disks)}

C6_DiskEntries ==
  \A w \in 1..Len(written) :
    LET i == written[w].instance
        disks == written[w].disks_list
    IN RawMounts(total_query, i) # {} =>
         /\ EntryMounts(disks) = RawMounts(total_query, i)
         /\ Len(disks) = Cardinality(RawMounts(total_query, i))
         /\ \A n \in 1..Len(disks) :
              LET m == disks[n].mountpoint
                  total == RawDiskValue(total_query, i, m)
                  free == RawDiskValue(free_query, i, m)
              IN /\ disks[n].total_gb * MiBPerGB = total
                 /\ disks[n].free_gb * MiBPerGB = free
                 /\ disks[n].used_gb = disks[n].total_gb - disks[n].free_gb
                 /\ RawDiskIdx(free_query, i, m) = {} =>
                      disks[n].free_gb = 0 /\ disks[n].used_gb = disks[n].total_gb

(* a report whose instance has one mountpoint with a size and no free-bytes
   sample, and another mountpoint known to disk_free only *)
C6_Witness ==
  \E w \in 1..Len(written) :
    LET i == written[w].instance
    IN /\ \E m \in RawMounts(total_query, i) : RawDiskIdx(free_query, i, m) = {}
       /\ RawMounts(free_query, i) \ RawMounts(total_query, i) # {}
       /\ written[w].disks_list # <<>>

(***************************************************************************)
(* C8: two runs that receive the same query results and both complete      *)
(* write the same set of report files with the same text in each, whatever *)
(* ./reports held before each of them.                                     *)
(***************************************************************************)
C8_RerunWritesSameFiles ==
  (Completed /\ prev.some) => WrittenFiles = prev.files

(* a second completed run that started on a non-empty ./reports *)
C8_Witness ==
  /\ Completed
  /\ prev.some
  /\ Len(written) >= 2
  /\ DOMAIN fs0 # {}

(***************************************************************************)
(* C9: for an instance with a CPU-idle sample, used_cpu is 100 - idle_cpu  *)
(* when idle_cpu is not zero and 0 when it is zero, the report prints these*)
(* two figures, and the cpu_free_percent stored for the threshold filter   *)
(* is the idle_cpu the report prints as CPU free.                          *)
(***************************************************************************)
LastFor(node) ==
  CHOOSE n \in 1..Len(written) :
    /\ written[n].node_name = node
    /\ \A m \in 1..Len(written) : written[m].node_name = node => m <= n

C9_CpuFigures ==
  /\ \A w \in 1..Len(written) :
       LET i == written[w].instance
           idle == RawValue(cpu_idle_query, i)
           text == written[w].report_text
       IN RawIdx(cpu_idle_query, i) # {} =>
            /\ idle # 0 => written[w].used_cpu = 100 * 100 - idle
                           /\ written[w].used_cpu + written[w].idle_cpu = 100 * 100
            /\ idle = 0 => written[w].used_cpu = 0 /\ written[w].used_cpu + written[w].idle_cpu = 0
            /\ text[3] = <<" CPU used: ", Fmt2(written[w].used_cpu), "%">>
            /\ text[4] = <<" CPU free: ", Fmt2(idle), "%">>
  /\ \A n \in 1..Len(nodes_data) :
       LET w == LastFor(nodes_data[n][1])
       IN written[w].report_text[4] = <<" CPU free: ", Fmt2(nodes_data[n][2].cpu_free_percent), "%">>

(* CPU idle 73.5 renders as used 26.50 and free 73.50, and an instance whose
   idle sample is exactly 0 is reported in the same completed run *)
C9_Witness ==
  /\ Completed
  /\ \E w \in 1..Len(written) :
       /\ RawValue(cpu_idle_query, written[w].instance) = 7350
       /\ written[w].report_text[3][2] = [sign |-> "", whole |-> 26, frac |-> 50]
       /\ written[w].report_text[4][2] = [sign |-> "", whole |-> 73, frac |-> 50]
  /\ \E w \in 1..Len(written) : RawValue(cpu_idle_query, written[w].instance) = 0

(***************************************************************************)
(* C10: every metrics query is issued and answered before the first report *)
(* file is written; the files are written one at a time in ascending       *)
(* lexicographic order of instance; the threshold filter runs exactly once,*)
(* after the report of every instance of the union has been written, and a *)
(* run that aborts never prints the summary.                               *)
(***************************************************************************)
AllQueriesInOrder ==
  <<cpu_idle_query, cpu_cores_query, mem_total_query, mem_avail_query,
    total_query, free_query, mem_total_query>>

HeaderBlocks == {k \in 1..Len(stdout) : IsHeaderBlock(stdout[k])}

WrittenBlocks == {k \in 1..Len(stdout) : IsWrittenBlock(stdout[k])}

C10_StrictPhases ==
  /\ (written # <<>> \/ stdout # <<>> \/ fs # fs0) => issued = AllQueriesInOrder
  /\ \A m, n \in 1..Len(written) : m < n => StrLess(written[m].instance, written[n].instance)
  /\ \A n \in 1..Len(written) :
       /\ n \in WrittenBlocks
       /\ stdout[n][1][2] = written[n].node_name
       /\ \A i \in RawUnion : StrLess(i, written[n].instance) => \E m \in 1..(n - 1) : written[m].instance = i
  /\ Cardinality(WrittenBlocks) = Len(written)
  /\ Cardinality(HeaderBlocks) <= 1
  /\ Completed <=> HeaderBlocks # {}
  /\ \A h \in HeaderBlocks :
       /\ h = Len(written) + 1
       /\ {written[n].instance : n \in 1..Len(written)} = RawUnion
  /\ pc = "aborted" => HeaderBlocks = {}

(* a completed run over two instances: two files written, then the summary *)
C10_Witness ==
  /\ Completed
  /\ Len(written) >= 2
  /\ HeaderBlocks # {}

FailingPath ==
  IF todo # <<>> /\ Subscriptable(IdleEntry(Head(todo)))
  THEN {Iteration(Head(todo)).path}
  ELSE {}

====
